---- MODULE Spec2Model ----
(***************************************************************************)
(* Stream role resolution of the prebuffer mixin                           *)
(* (plugins/prebuffer-mixin/src/stream-settings.ts).                       *)
(*                                                                         *)
(* A value that may be undefined is an option: None is undefined and       *)
(* Some(x) is the defined value x.  A stream list that is undefined is     *)
(* None, the empty array is Some(<<>>).  The numbers pickBestStream        *)
(* computes with are tagged, so that NaN, an unassigned bestScore and      *)
(* Number.MAX_SAFE_INTEGER keep the comparisons JavaScript gives them.     *)
(***************************************************************************)
EXTENDS Integers, Sequences, FiniteSets

VARIABLES msos, storageSettings, ret

vars == <<msos, storageSettings, ret>>

\* ------------------------------------------------------------------ values

None == <<>>
Some(x) == <<x>>
IsSome(o) == Len(o) = 1
Get(o) == o[1]

\* JavaScript truthiness of an object reference: undefined is falsy.
Truthy(o) == IsSome(o)

Num(n) == [t |-> "number", n |-> n]
NaN == [t |-> "NaN", n |-> 0]
UndefinedNumber == [t |-> "undefined", n |-> 0]
\* Number.MAX_SAFE_INTEGER is 2^53 - 1.  It is kept symbolic: it is larger than
\* every number the stream catalog below can produce.
MAX_SAFE_INTEGER == [t |-> "MAX_SAFE_INTEGER", n |-> 0]

\* Number.isNaN
isNaN(x) == x.t = "NaN"

\* a < b on numbers: false as soon as one side is NaN or undefined.
Less(a, b) ==
    CASE a.t = "number" /\ b.t = "number" -> a.n < b.n
      [] a.t = "number" /\ b.t = "MAX_SAFE_INTEGER" -> TRUE
      [] OTHER -> FALSE

\* a * b where a and b are optional numbers: undefined * x is NaN.
Times(a, b) == IF IsSome(a) /\ IsSome(b) THEN Num(Get(a) * Get(b)) ELSE NaN

\* x - r for a number r: NaN - r is NaN.
Minus(x, r) == IF x.t = "number" THEN Num(x.n - r) ELSE NaN

\* Math.abs
Abs(x) == IF x.t = "number" THEN Num(IF x.n < 0 THEN -x.n ELSE x.n) ELSE x

\* ------------------------------------------------------------------ bounds

\* Longest stream list a device reports.
MaxStreams == 2
\* Longest persisted enabledStreams array.
MaxEnabled == 2

\* ------------------------------------------------------------------ streams

Video(w, h) == Some([width |-> Some(w), height |-> Some(h)])

\* mso.video?.width and mso.video?.height
videoWidth(mso) == IF IsSome(mso.video) THEN Get(mso.video).width ELSE None
videoHeight(mso) == IF IsSome(mso.video) THEN Get(mso.video).height ELSE None

\* The ResponseMediaStreamOptions a device can report: local and cloud
\* sources, a rawvideo container, a stream without video, a stream with a
\* width only, and a stream whose name is the word Default.  Cloud1 (1280x960)
\* and Raw (960x640) are equally far from 1280x720.
Stream1080p ==
    [name |-> "1080p", source |-> Some("local"), container |-> Some("h264"), video |-> Video(1920, 1080)]
Stream4k ==
    [name |-> "4k", source |-> Some("local"), container |-> Some("h264"), video |-> Video(3840, 2160)]
StreamCloud1 ==
    [name |-> "cloud1", source |-> Some("cloud"), container |-> None, video |-> Video(1280, 960)]
StreamRaw ==
    [name |-> "raw", source |-> Some("local"), container |-> Some("rawvideo"), video |-> Video(960, 640)]
StreamSub ==
    [name |-> "sub", source |-> None, container |-> Some("h264"), video |-> None]
StreamThumb ==
    [name |-> "thumb", source |-> Some("local"), container |-> Some("h264"),
     video |-> Some([width |-> Some(320), height |-> None])]
StreamNamedDefault ==
    [name |-> "Default", source |-> Some("local"), container |-> Some("h264"), video |-> Video(640, 360)]

Catalog ==
    { Stream1080p, Stream4k, StreamCloud1, StreamRaw, StreamSub, StreamThumb, StreamNamedDefault }

RECURSIVE ListsOfLen(_)
ListsOfLen(n) ==
    IF n = 0 THEN { <<>> }
    ELSE { Append(l, s) : l \in ListsOfLen(n - 1), s \in Catalog }

Names(list) == { list[i].name : i \in 1..Len(list) }

\* Stream lists with unique names (a name identifies a stream within a list).
StreamLists ==
    { l \in UNION { ListsOfLen(n) : n \in 0..MaxStreams } : Cardinality(Names(l)) = Len(l) }

\* What a caller passes as msos: undefined or a list.
MsosInputs == { None } \cup { Some(l) : l \in StreamLists }

\* Names a persisted setting can hold: streams of the catalog and a stream
\* the device no longer reports.
PersistedNames == { "1080p", "4k", "cloud1", "gone" }

RECURSIVE NameSeqs(_)
NameSeqs(n) ==
    IF n = 0 THEN { <<>> }
    ELSE { Append(l, s) : l \in NameSeqs(n - 1), s \in PersistedNames }

EnabledValues ==
    { l \in UNION { NameSeqs(n) : n \in 0..MaxEnabled } :
        Cardinality({ l[i] : i \in 1..Len(l) }) = Len(l) }

\* storageSettings.hasValue.enabledStreams and storageSettings.values.enabledStreams
StorageInputs ==
    { [hasValue |-> FALSE, enabledStreams |-> <<>>] }
        \cup { [hasValue |-> TRUE, enabledStreams |-> e] : e \in EnabledValues }

\* storageSettings.values[key] for a role: unset, "Default", or a stream name.
RoleValues ==
    { None } \cup { Some(n) : n \in { s.name : s \in Catalog } \cup { "Default", "gone" } }

\* ------------------------------------------------------------------ program

\* msos.find(mso => mso.source !== 'cloud' && mso.container !== 'rawvideo'):
\* the index of the first match from i on, 0 when there is none.
RECURSIVE findNonCloud(_, _)
findNonCloud(list, i) ==
    IF i > Len(list) THEN 0
    ELSE IF list[i].source # Some("cloud") /\ list[i].container # Some("rawvideo") THEN i
    ELSE findNonCloud(list, i + 1)

\* Mutants of getDefaultPrebufferedStreams: the rawvideo test is left out.
RECURSIVE findNonCloudOnly(_, _)
findNonCloudOnly(list, i) ==
    IF i > Len(list) THEN 0
    ELSE IF list[i].source # Some("cloud") THEN i
    ELSE findNonCloudOnly(list, i + 1)

getDefaultPrebufferedStreams_CloudOnly(m) ==
    IF ~Truthy(m) THEN None
    ELSE LET firstNonCloudStream == findNonCloudOnly(Get(m), 1)
         IN  IF firstNonCloudStream # 0
             THEN Some(<< Get(m)[firstNonCloudStream] >>)
             ELSE Some(<<>>)

getDefaultPrebufferedStreams(m) ==
    IF ~Truthy(m) THEN None
    ELSE LET firstNonCloudStream == findNonCloud(Get(m), 1)
         IN  IF firstNonCloudStream # 0
             THEN Some(<< Get(m)[firstNonCloudStream] >>)
             ELSE Some(<<>>)

\* Array.prototype.includes on the persisted array of names.
includes(arr, x) == \E i \in 1..Len(arr) : arr[i] = x

\* Array.prototype.filter: keeps the order of the filtered list.
RECURSIVE filterEnabled(_, _)
filterEnabled(list, enabled) ==
    IF list = <<>> THEN <<>>
    ELSE (IF includes(enabled, Head(list).name) THEN << Head(list) >> ELSE <<>>)
            \o filterEnabled(Tail(list), enabled)

\* Mutant of getPrebufferedStreams: the persisted names are mapped to their
\* streams, in the order of the persisted array.
RECURSIVE mapEnabled(_, _)
mapEnabled(list, enabled) ==
    IF enabled = <<>> THEN <<>>
    ELSE SelectSeq(list, LAMBDA s : s.name = Head(enabled)) \o mapEnabled(list, Tail(enabled))

getPrebufferedStreams_PersistedOrder(ss, m) ==
    IF ~Truthy(m) THEN None
    ELSE IF ~ss.hasValue THEN getDefaultPrebufferedStreams(m)
    ELSE Some(mapEnabled(Get(m), ss.enabledStreams))

getPrebufferedStreams(ss, m) ==
    IF ~Truthy(m) THEN None
    ELSE IF ~ss.hasValue THEN getDefaultPrebufferedStreams(m)
    ELSE Some(filterEnabled(Get(m), ss.enabledStreams))

\* The for loop of pickBestStream from candidate i on.
RECURSIVE pickLoop(_, _, _, _, _)
pickLoop(list, resolution, i, best, bestScore) ==
    IF i > Len(list) THEN best
    ELSE LET mso == list[i]
             score == Abs(Minus(Times(videoWidth(mso), videoHeight(mso)), resolution))
         IN  IF ~Truthy(best) \/ Less(score, bestScore)
             THEN pickLoop(list, resolution, i + 1, Some(mso),
                           IF isNaN(score) THEN MAX_SAFE_INTEGER ELSE score)
             ELSE pickLoop(list, resolution, i + 1, best, bestScore)

\* Mutants of pickBestStream: <= for <, no reset of a NaN bestScore, and no
\* test of best.
LessOrEqual(a, b) ==
    CASE a.t = "number" /\ b.t = "number" -> a.n <= b.n
      [] a.t = "number" /\ b.t = "MAX_SAFE_INTEGER" -> TRUE
      [] a.t = "MAX_SAFE_INTEGER" /\ b.t = "MAX_SAFE_INTEGER" -> TRUE
      [] OTHER -> FALSE

RECURSIVE pickLoop_LastOnTie(_, _, _, _, _)
pickLoop_LastOnTie(list, resolution, i, best, bestScore) ==
    IF i > Len(list) THEN best
    ELSE LET mso == list[i]
             score == Abs(Minus(Times(videoWidth(mso), videoHeight(mso)), resolution))
         IN  IF ~Truthy(best) \/ LessOrEqual(score, bestScore)
             THEN pickLoop_LastOnTie(list, resolution, i + 1, Some(mso),
                                     IF isNaN(score) THEN MAX_SAFE_INTEGER ELSE score)
             ELSE pickLoop_LastOnTie(list, resolution, i + 1, best, bestScore)

pickBestStream_LastOnTie(m, resolution) ==
    IF ~Truthy(m) THEN None
    ELSE pickLoop_LastOnTie(Get(m), resolution, 1, None, UndefinedNumber)

RECURSIVE pickLoop_KeepNaN(_, _, _, _, _)
pickLoop_KeepNaN(list, resolution, i, best, bestScore) ==
    IF i > Len(list) THEN best
    ELSE LET mso == list[i]
             score == Abs(Minus(Times(videoWidth(mso), videoHeight(mso)), resolution))
         IN  IF ~Truthy(best) \/ Less(score, bestScore)
             THEN pickLoop_KeepNaN(list, resolution, i + 1, Some(mso), score)
             ELSE pickLoop_KeepNaN(list, resolution, i + 1, best, bestScore)

pickBestStream_KeepNaN(m, resolution) ==
    IF ~Truthy(m) THEN None
    ELSE pickLoop_KeepNaN(Get(m), resolution, 1, None, UndefinedNumber)

RECURSIVE pickLoop_NoBestTest(_, _, _, _, _)
pickLoop_NoBestTest(list, resolution, i, best, bestScore) ==
    IF i > Len(list) THEN best
    ELSE LET mso == list[i]
             score == Abs(Minus(Times(videoWidth(mso), videoHeight(mso)), resolution))
         IN  IF Less(score, bestScore)
             THEN pickLoop_NoBestTest(list, resolution, i + 1, Some(mso),
                                      IF isNaN(score) THEN MAX_SAFE_INTEGER ELSE score)
             ELSE pickLoop_NoBestTest(list, resolution, i + 1, best, bestScore)

pickBestStream_NoBestTest(m, resolution) ==
    IF ~Truthy(m) THEN None
    ELSE pickLoop_NoBestTest(Get(m), resolution, 1, None, UndefinedNumber)

pickBestStream(m, resolution) ==
    IF ~Truthy(m) THEN None
    ELSE pickLoop(Get(m), resolution, 1, None, UndefinedNumber)

Roles == { "defaultStream", "remoteStream", "lowResolutionStream",
           "recordingStream", "remoteRecordingStream" }

streamTypes ==
    [ defaultStream |->
        [title |-> "Local Stream", prefersPrebuffer |-> TRUE, preferredResolution |-> 3840 * 2160],
      remoteStream |->
        [title |-> "Remote (Medium Resolution) Stream", prefersPrebuffer |-> FALSE, preferredResolution |-> 1280 * 720],
      lowResolutionStream |->
        [title |-> "Low Resolution Stream", prefersPrebuffer |-> FALSE, preferredResolution |-> 480 * 360],
      recordingStream |->
        [title |-> "Local Recording Stream", prefersPrebuffer |-> TRUE, preferredResolution |-> 3840 * 2160],
      remoteRecordingStream |->
        [title |-> "Remote Recording Stream", prefersPrebuffer |-> TRUE, preferredResolution |-> 1280 * 720] ]

\* enabledStreams?.length > 0: undefined > 0 is false.
lengthPositive(o) == IsSome(o) /\ Len(Get(o)) > 0

\* Mutants of getDefaultMediaStream: the enabled streams are not consulted;
\* their length is not tested; prefersPrebuffer is not tested.
getDefaultMediaStream_IgnoreEnabled(ss, v, m) ==
    pickBestStream(m, v.preferredResolution)

getDefaultMediaStream_NoLengthTest(ss, v, m) ==
    LET enabledStreams == getPrebufferedStreams(ss, m)
        prebufferPreferenceStreams ==
            IF v.prefersPrebuffer /\ IsSome(enabledStreams) THEN enabledStreams ELSE m
    IN  pickBestStream(prebufferPreferenceStreams, v.preferredResolution)

getDefaultMediaStream_AlwaysPrefers(ss, v, m) ==
    LET enabledStreams == getPrebufferedStreams(ss, m)
        prebufferPreferenceStreams ==
            IF lengthPositive(enabledStreams) THEN enabledStreams ELSE m
    IN  pickBestStream(prebufferPreferenceStreams, v.preferredResolution)

getDefaultMediaStream(ss, v, m) ==
    LET enabledStreams == getPrebufferedStreams(ss, m)
        prebufferPreferenceStreams ==
            IF v.prefersPrebuffer /\ lengthPositive(enabledStreams) THEN enabledStreams ELSE m
    IN  pickBestStream(prebufferPreferenceStreams, v.preferredResolution)

\* msos?.find(mso => mso.name === value)
RECURSIVE findName(_, _, _)
findName(list, value, i) ==
    IF i > Len(list) THEN None
    ELSE IF Some(list[i].name) = value THEN Some(list[i])
    ELSE findName(list, value, i + 1)

\* Mutants of getMediaStream: the default is computed whatever the value
\* is; a value that names no stream is not replaced by the default.
getMediaStream_AlwaysDefault(ss, key, value, m) ==
    [title |-> streamTypes[key].title, isDefault |-> TRUE,
     stream |-> getDefaultMediaStream(ss, streamTypes[key], m)]

getMediaStream_NoFallback(ss, key, value, m) ==
    LET isDefault == value = Some("Default")
    IN  IF isDefault
        THEN [title |-> streamTypes[key].title, isDefault |-> TRUE,
              stream |-> getDefaultMediaStream(ss, streamTypes[key], m)]
        ELSE [title |-> streamTypes[key].title, isDefault |-> FALSE,
              stream |-> IF Truthy(m) THEN findName(Get(m), value, 1) ELSE None]

\* value is storageSettings.values[key], read when the call is made.
getMediaStream(ss, key, value, m) ==
    LET v == streamTypes[key]
        isDefault == value = Some("Default")
        stream == IF Truthy(m) THEN findName(Get(m), value, 1) ELSE None
    IN  IF isDefault \/ ~Truthy(stream)
        THEN [title |-> streamTypes[key].title, isDefault |-> TRUE,
              stream |-> getDefaultMediaStream(ss, v, m)]
        ELSE [title |-> streamTypes[key].title, isDefault |-> isDefault, stream |-> stream]

\* ------------------------------------------------------------------ machine

\* Targets pickBestStream is asked for: the roles' and 2880x1800, which is
\* equally far from 1920x1080 and 3840x2160.
Resolutions == { streamTypes[k].preferredResolution : k \in Roles } \cup { 2880 * 1800 }

\* ret before the call.  The functions keep nothing between calls, so a run
\* is one call on the snapshot Init draws.
NoCall == [op |-> "none"]

Init ==
    /\ msos \in MsosInputs
    /\ storageSettings \in StorageInputs
    /\ ret = NoCall

CallPickBestStream ==
    /\ ret = NoCall
    /\ \E resolution \in Resolutions :
          ret' = [op |-> "pickBestStream", resolution |-> resolution,
                  out |-> pickBestStream(msos, resolution)]
    /\ UNCHANGED <<msos, storageSettings>>

CallGetDefaultPrebufferedStreams ==
    /\ ret = NoCall
    /\ ret' = [op |-> "getDefaultPrebufferedStreams", out |-> getDefaultPrebufferedStreams(msos)]
    /\ UNCHANGED <<msos, storageSettings>>

CallGetPrebufferedStreams ==
    /\ ret = NoCall
    /\ ret' = [op |-> "getPrebufferedStreams", out |-> getPrebufferedStreams(storageSettings, msos)]
    /\ UNCHANGED <<msos, storageSettings>>

Resolve(key) ==
    /\ ret = NoCall
    /\ \E value \in RoleValues :
          ret' = [op |-> "getMediaStream", key |-> key, value |-> value,
                  out |-> getMediaStream(storageSettings, key, value, msos)]
    /\ UNCHANGED <<msos, storageSettings>>

getDefaultStream == Resolve("defaultStream")
getRemoteStream == Resolve("remoteStream")
getLowResolutionStream == Resolve("lowResolutionStream")
getRecordingStream == Resolve("recordingStream")
getRemoteRecordingStream == Resolve("remoteRecordingStream")

Next ==
    \/ CallPickBestStream
    \/ CallGetDefaultPrebufferedStreams
    \/ CallGetPrebufferedStreams
    \/ getDefaultStream
    \/ getRemoteStream
    \/ getLowResolutionStream
    \/ getRecordingStream
    \/ getRemoteRecordingStream

Spec == Init /\ [][Next]_vars

\* ------------------------------------------------------------------ claims

Resolved == ret.op = "getMediaStream"
List == Get(msos)
NonEmpty == IsSome(msos) /\ Len(List) > 0
HasDimensions(s) == IsSome(videoWidth(s)) /\ IsSome(videoHeight(s))
Pixels(s) == Get(videoWidth(s)) * Get(videoHeight(s))
Distance(s, r) == IF Pixels(s) < r THEN r - Pixels(s) ELSE Pixels(s) - r
Enabled(name) == storageSettings.hasValue /\ includes(storageSettings.enabledStreams, name)

\* C1 as stated: whenever the role's persisted value equals the name of a
\* stream of the list, for every name a stream can carry (the name Default
\* included), getMediaStream returns isDefault = false and that list entry.
C1_AnyName ==
    Resolved /\ IsSome(msos) =>
        \A i \in 1..Len(List) :
            Some(List[i].name) = ret.value =>
                ret.out.isDefault = FALSE /\ ret.out.stream = Some(List[i])

\* C1 as amended: whenever the role's persisted value is not "Default" and
\* equals the name of a stream of the list, getMediaStream returns
\* isDefault = false and that list entry.
C1_NamedStream ==
    Resolved /\ IsSome(msos) /\ ret.value # Some("Default") =>
        \A i \in 1..Len(List) :
            Some(List[i].name) = ret.value =>
                ret.out.isDefault = FALSE /\ ret.out.stream = Some(List[i])

C1_Witness ==
    /\ Resolved
    /\ ret.key = "defaultStream"
    /\ ret.value = Some("1080p")
    /\ msos = Some(<< Stream4k, Stream1080p >>)
    /\ ~storageSettings.hasValue
    /\ ret.out.isDefault = FALSE
    /\ ret.out.stream = Some(Stream1080p)

\* C2: when the role's persisted value is not "Default" and names no stream
\* of the list, getMediaStream returns isDefault = true and the stream
\* getDefaultMediaStream computes for the role, which is defined whenever the
\* list is not empty.
C2_StaleFallsBack ==
    Resolved /\ ret.value # Some("Default")
             /\ (IsSome(msos) => \A i \in 1..Len(List) : Some(List[i].name) # ret.value) =>
        /\ ret.out.isDefault = TRUE
        /\ ret.out.stream = getDefaultMediaStream(storageSettings, streamTypes[ret.key], msos)
        /\ (NonEmpty => IsSome(ret.out.stream))

C2_Witness ==
    /\ Resolved
    /\ ret.key = "remoteStream"
    /\ ret.value = Some("gone")
    /\ msos = Some(<< Stream4k, Stream1080p >>)
    /\ ret.out.isDefault = TRUE
    /\ ret.out.stream = Some(Stream1080p)

\* The scenario of C3: the list [1080p, 4k], the role defaultStream and the
\* persisted value "Default".
C3_Scenario ==
    /\ Resolved
    /\ ret.key = "defaultStream"
    /\ ret.value = Some("Default")
    /\ msos = Some(<< Stream1080p, Stream4k >>)

\* C3 as stated: in the scenario getDefaultStream resolves to 4k with
\* isDefault = true whatever the enabled-streams setting is, unset included.
C3_Always4k ==
    C3_Scenario => ret.out.isDefault = TRUE /\ ret.out.stream = Some(Stream4k)

\* C3 as amended: in the scenario getDefaultStream resolves with
\* isDefault = true to 4k when the enabled-streams setting is set and holds
\* "4k" or does not hold "1080p", and to 1080p when the setting is unset or
\* holds "1080p" without "4k".
C3_PrebufferedFirst ==
    C3_Scenario =>
        /\ ret.out.isDefault = TRUE
        /\ ret.out.stream =
              IF storageSettings.hasValue /\ (Enabled("4k") \/ ~Enabled("1080p"))
              THEN Some(Stream4k)
              ELSE Some(Stream1080p)

C3_Witness ==
    /\ C3_Scenario
    /\ ~storageSettings.hasValue
    /\ ret.out.isDefault = TRUE
    /\ ret.out.stream = Some(Stream1080p)

\* C4: for a role that prefers prebuffer and a list that is not empty, when
\* getPrebufferedStreams yields the empty list the default stream is the
\* one pickBestStream picks in the full list for the role's resolution, and
\* it is defined.
C4_EmptySubsetUsesAll ==
    Resolved /\ ret.out.isDefault /\ streamTypes[ret.key].prefersPrebuffer /\ NonEmpty
             /\ getPrebufferedStreams(storageSettings, msos) = Some(<<>>) =>
        /\ ret.out.stream = pickBestStream(msos, streamTypes[ret.key].preferredResolution)
        /\ IsSome(ret.out.stream)
        /\ \E i \in 1..Len(List) : ret.out.stream = Some(List[i])

C4_Witness ==
    /\ Resolved
    /\ ret.key = "recordingStream"
    /\ ret.value = Some("Default")
    /\ msos = Some(<< StreamRaw, StreamCloud1 >>)
    /\ ~storageSettings.hasValue
    /\ ret.out.stream = Some(StreamCloud1)

\* C5: for a defined list getDefaultPrebufferedStreams returns a list: the
\* one-element list of the first stream that is neither cloud nor rawvideo,
\* or the empty list when there is no such stream.
Prebufferable(s) == s.source # Some("cloud") /\ s.container # Some("rawvideo")

C5_FirstNonCloud ==
    ret.op = "getDefaultPrebufferedStreams" /\ IsSome(msos) =>
        LET good == { i \in 1..Len(List) : Prebufferable(List[i]) }
        IN  /\ IsSome(ret.out)
            /\ Len(Get(ret.out)) <= 1
            /\ \A k \in 1..Len(Get(ret.out)) : Prebufferable(Get(ret.out)[k])
            /\ (good = {} <=> Get(ret.out) = <<>>)
            /\ \A i \in good :
                  (\A j \in good : i <= j) => Get(ret.out) = << List[i] >>

C5_Witness ==
    /\ ret.op = "getDefaultPrebufferedStreams"
    /\ msos = Some(<< StreamRaw, Stream4k >>)
    /\ ret.out = Some(<< Stream4k >>)

\* C6: for a non-empty list whose candidates all have a width and a height,
\* pickBestStream returns the candidate of smallest index among those at the
\* smallest distance abs(width * height - target).
C6_FirstClosest ==
    ret.op = "pickBestStream" /\ NonEmpty /\ (\A i \in 1..Len(List) : HasDimensions(List[i])) =>
        \E i \in 1..Len(List) :
            /\ ret.out = Some(List[i])
            /\ \A j \in 1..Len(List) :
                  Distance(List[j], ret.resolution) >= Distance(List[i], ret.resolution)
            /\ \A j \in 1..(i - 1) :
                  Distance(List[j], ret.resolution) > Distance(List[i], ret.resolution)

C6_Witness ==
    /\ ret.op = "pickBestStream"
    /\ ret.resolution = 2880 * 1800
    /\ msos = Some(<< Stream4k, Stream1080p >>)
    /\ ret.out = Some(Stream4k)

\* C7: when a candidate has a width and a height, pickBestStream returns a
\* candidate that has both, wherever the candidates without them stand; when
\* no candidate of a non-empty list has both, it returns the first candidate.
C7_KnownResolutionFirst ==
    ret.op = "pickBestStream" /\ NonEmpty =>
        IF \E i \in 1..Len(List) : HasDimensions(List[i])
        THEN IsSome(ret.out) /\ HasDimensions(Get(ret.out))
        ELSE ret.out = Some(List[1])

C7_Witness ==
    /\ ret.op = "pickBestStream"
    /\ msos = Some(<< StreamSub, Stream1080p >>)
    /\ ret.out = Some(Stream1080p)

\* C8: with an explicit enabled-streams value and a defined list,
\* getPrebufferedStreams returns the streams of the list whose name is in the
\* persisted array, in the order of the list; cloud and rawvideo streams are
\* kept and names of no stream add nothing.
C8_FilterInListOrder ==
    ret.op = "getPrebufferedStreams" /\ storageSettings.hasValue /\ IsSome(msos) =>
        LET names == { storageSettings.enabledStreams[k] :
                          k \in 1..Len(storageSettings.enabledStreams) }
        IN  ret.out = Some(SelectSeq(List, LAMBDA s : s.name \in names))

C8_Witness ==
    /\ ret.op = "getPrebufferedStreams"
    /\ storageSettings.hasValue
    /\ storageSettings.enabledStreams = << "cloud1", "1080p" >>
    /\ msos = Some(<< Stream1080p, StreamCloud1 >>)
    /\ ret.out = Some(<< Stream1080p, StreamCloud1 >>)

\* C9: the stream getMediaStream returns is undefined exactly when the list
\* is undefined or empty, and is an element of the list otherwise.
C9_Available ==
    Resolved =>
        /\ (ret.out.stream = None <=> ~NonEmpty)
        /\ (NonEmpty => \E i \in 1..Len(List) : ret.out.stream = Some(List[i]))

C9_Witness ==
    /\ Resolved
    /\ ret.key = "lowResolutionStream"
    /\ ret.value = None
    /\ storageSettings.hasValue
    /\ storageSettings.enabledStreams = << "gone" >>
    /\ msos = Some(<< StreamSub, StreamRaw >>)
    /\ ret.out.isDefault = TRUE
    /\ ret.out.stream = Some(StreamRaw)

\* C10: for a role that does not prefer prebuffer, getMediaStream returns
\* the same result under every enabled-streams setting, and with the value
\* "Default" its stream is the one pickBestStream picks in the full list.
C10_IgnoresEnabledStreams ==
    Resolved /\ ~streamTypes[ret.key].prefersPrebuffer =>
        /\ \A ss \in StorageInputs : getMediaStream(ss, ret.key, ret.value, msos) = ret.out
        /\ (ret.value = Some("Default") =>
               ret.out.stream = pickBestStream(msos, streamTypes[ret.key].preferredResolution))

C10_Witness ==
    /\ Resolved
    /\ ret.key = "remoteStream"
    /\ ret.value = Some("Default")
    /\ storageSettings.hasValue
    /\ storageSettings.enabledStreams = << "4k" >>
    /\ msos = Some(<< Stream4k, Stream1080p >>)
    /\ ret.out.stream = Some(Stream1080p)

====
